---- MODULE Spec2Model ----
(***************************************************************************)
(* Reservation state machine of the exam-schedule backend.                 *)
(*                                                                         *)
(* The persistent store holds one row per exam schedule (events) and one   *)
(* row per user reservation (reservations).  Every HTTP request runs as    *)
(* its own coroutine (a member of Procs); a coroutine can be suspended at  *)
(* every awaited store call, and every FastCRUD create/update commits on   *)
(* its own, so one action of the model is the code of a handler between    *)
(* two awaited store calls, including the call that ends it.               *)
(***************************************************************************)
EXTENDS Integers, Sequences, FiniteSets, TLC

VARIABLES
    events,        \* table exam_schedule: id -> row
    reservations,  \* table user_reservation: the rows in id order (id = index)
    pc,            \* per coroutine: the await it is suspended at, "idle" or "off"
    loc,           \* per coroutine: the local variables of its handler
    resp,          \* per coroutine: the response of its last finished request
    budget,        \* number of requests the server still accepts
    clock,         \* the wall clock, in seconds (it runs in SpecClock only)
    mark           \* the counters read when a scripted sequence began (SpecRoundTrip only)

vars == <<events, reservations, pc, loc, resp, budget, clock, mark>>

(* ------------------------------ bounds -------------------------------- *)
\* largest max_users an exam schedule is created with
MaxSeats == 2
\* largest value the clock returns, in seconds
MaxNow == 1
\* requests accepted in one run of Spec
MaxRequests == 4

Procs == {1, 2, 3}
\* the coroutines that serve requests in Spec
Workers == {1, 2}
\* the users that send requests in Spec
UserIds == {1, 2}
EventIds == DOMAIN events
\* the values datetime.now(UTC) can return, in seconds
Times == 0..MaxNow

(* ------------------------- program constants -------------------------- *)
\* timedelta(days=3), in seconds
BOOKING_CUTOFF == 259200

ReservationStatus == {"RESERVED", "CONFIRMED", "CANCELLED", "DELETED"}
ExamScheduleStatus == {"AVAILABLE", "FULLY_BOOKED", "CANCELLED", "DELETED"}

\* column default of user_reservation.status and field default of the request body
DefaultReservationStatus == "RESERVED"
\* status of a freshly created exam schedule row
DefaultExamScheduleStatus == "AVAILABLE"

\* the start_at every exam schedule is created with: the booking window is
\* open at time 0 and closed from time 1 on
InitialStartAt == BOOKING_CUTOFF + 1

(* --------------------------- rows and locals -------------------------- *)
\* an exam_schedule row as write_exam_schedule leaves it
NewExamSchedule(m) ==
    [max_users |-> m, reserve_count |-> 0, confirm_count |-> 0,
     status |-> DefaultExamScheduleStatus, is_deleted |-> FALSE,
     start_at |-> InitialStartAt]

NoReservation == [user_id |-> 0, exam_schedule_id |-> 0, status |-> DefaultReservationStatus]
NoExamSchedule == NewExamSchedule(0)

\* the local variables of a handler that is not running
NoLocals ==
    [rid |-> 0, status |-> DefaultReservationStatus, current_user |-> 0,
     db_reservation |-> NoReservation, exam_schedule |-> NoExamSchedule]

\* no scripted sequence has begun
NoMark == [phase |-> 0, reserve_count |-> 0, confirm_count |-> 0]

ReservationIds == 1..Len(reservations)

\* a duplicate check that overlooks the rows in CANCELLED and DELETED
reservation_check_active(u, e) ==
    \E i \in ReservationIds :
        /\ reservations[i].user_id = u /\ reservations[i].exam_schedule_id = e
        /\ reservations[i].status \in {"RESERVED", "CONFIRMED"}

\* crud_user_reservation.get(user_id=..., exam_schedule_id=...)
reservation_check(u, e) ==
    \E i \in ReservationIds :
        reservations[i].user_id = u /\ reservations[i].exam_schedule_id = e

\* the store with the exam schedules of ms (id -> max_users), no reservation,
\* the coroutines of ws waiting for requests and n requests to come
InitWith(ms, ws, n) ==
    /\ events = [e \in DOMAIN ms |-> NewExamSchedule(ms[e])]
    /\ reservations = <<>>
    /\ pc = [p \in Procs |-> IF p \in ws THEN "idle" ELSE "off"]
    /\ loc = [p \in Procs |-> NoLocals]
    /\ resp = [p \in Procs |-> "none"]
    /\ budget = n
    /\ clock = 0
    /\ mark = NoMark

Init == \E m \in 1..MaxSeats : InitWith(<<m>>, Workers, MaxRequests)

\* coroutine p takes a request off the socket
Accept(p) ==
    /\ pc[p] = "idle"
    /\ budget > 0
    /\ budget' = budget - 1

\* coroutine p goes on to the await at label l with locals v
Goto(p, l, v) ==
    /\ pc' = [pc EXCEPT ![p] = l]
    /\ loc' = [loc EXCEPT ![p] = v]
    /\ resp' = [resp EXCEPT ![p] = "none"]

\* the request of coroutine p ends with response r
Finish(p, r) ==
    /\ pc' = [pc EXCEPT ![p] = "idle"]
    /\ loc' = [loc EXCEPT ![p] = NoLocals]
    /\ resp' = [resp EXCEPT ![p] = r]

(* ------------------------ create_user_reservation --------------------- *)
\* lines 36-38: the exam schedule is read by id alone; the 404 raised inside
\* the try block is caught by "except Exception" and sent as a 400.  Of the
\* dict read, the handler later reads start_at, confirm_count and max_users.
create_get_exam_schedule(p, actor, user_id, eid, status) ==
    /\ Accept(p)
    /\ UNCHANGED <<events, reservations, clock, mark>>
    /\ IF eid \notin EventIds
       THEN Finish(p, "BadRequest")
       ELSE Goto(p, "create_check",
                 [NoLocals EXCEPT
                     !.current_user = actor,
                     !.db_reservation = [user_id |-> user_id, exam_schedule_id |-> eid, status |-> status],
                     !.exam_schedule = [events[eid] EXCEPT !.reserve_count = 0,
                                                           !.status = DefaultExamScheduleStatus]])

\* a booking window that is still open at the cutoff itself
window_closed_late(ev, now) == now > ev.start_at - BOOKING_CUTOFF

\* lines 45-46: the booking window is closed
window_closed(ev, now) == now >= ev.start_at - BOOKING_CUTOFF

\* lines 78 and 86, and 48: the capacity check
capacity_reached(ev) == ev.confirm_count >= ev.max_users

\* a request body that is stored with the user_id it came with
set_user_id_absent(row, actor) == row

\* line 51: the user_id of the request body is replaced by the id of the
\* authenticated user
set_user_id(row, actor) == [row EXCEPT !.user_id = actor]

\* lines 40-53: duplicate check, booking window and capacity, the last two
\* against the exam schedule read before; reserve_count += 1 changes the
\* local dict only, which is never written back
create_check(p, now) ==
    /\ pc[p] = "create_check"
    /\ UNCHANGED <<events, reservations, budget, clock, mark>>
    /\ LET row == loc[p].db_reservation
           ev == loc[p].exam_schedule
       IN IF \/ reservation_check(loc[p].current_user, row.exam_schedule_id)
             \/ window_closed(ev, now)
             \/ capacity_reached(ev)
          THEN Finish(p, "BadRequest")
          ELSE Goto(p, "create_insert",
                    [loc[p] EXCEPT !.db_reservation = set_user_id(row, loc[p].current_user),
                                   !.exam_schedule = NoExamSchedule])

\* line 54: crud_user_reservation.create inserts the request body and commits;
\* the unique constraint (user_id, exam_schedule_id) rejects a duplicate row
\* and the foreign key a row of an exam schedule deleted meanwhile, and the
\* exception is sent as a 400
create_insert(p) ==
    /\ pc[p] = "create_insert"
    /\ UNCHANGED <<events, budget, clock, mark>>
    /\ LET row == loc[p].db_reservation
       IN IF \/ reservation_check(row.user_id, row.exam_schedule_id)
             \/ row.exam_schedule_id \notin EventIds
          THEN /\ UNCHANGED reservations
               /\ Finish(p, "BadRequest")
          ELSE /\ reservations' = Append(reservations, row)
               /\ Finish(p, "Created")

(* --------------------- update_user_reservation_status ----------------- *)
\* lines 76-97: the counter deltas by (current status, requested status); the
\* early return of lines 96-97 is behind the three branches that cover every
\* member of ReservationStatus, so a request for the current status goes on
\* to the two writes like any other
apply_delta(ev, cur, status) ==
    IF cur = "RESERVED" THEN
        IF status = "CONFIRMED" THEN
            [ev EXCEPT !.confirm_count = @ + 1, !.reserve_count = @ - 1]
        ELSE IF status \in {"CANCELLED", "DELETED"} THEN
            [ev EXCEPT !.reserve_count = @ - 1]
        ELSE ev
    ELSE IF cur \in {"CANCELLED", "DELETED"} THEN
        IF status = "CONFIRMED" THEN [ev EXCEPT !.confirm_count = @ + 1]
        ELSE IF status = "RESERVED" THEN [ev EXCEPT !.reserve_count = @ + 1]
        ELSE ev
    ELSE IF cur = "CONFIRMED" THEN
        IF status \in {"CANCELLED", "DELETED"} THEN [ev EXCEPT !.confirm_count = @ - 1]
        ELSE IF status = "RESERVED" THEN [ev EXCEPT !.reserve_count = @ + 1]
        ELSE ev
    ELSE ev

\* the floor left out
clamp_absent(ev) == ev

\* the floor of confirm_count alone
clamp_confirm_only(ev) == [ev EXCEPT !.confirm_count = IF @ < 0 THEN 0 ELSE @]

\* lines 99-103: the floor of both counters
clamp(ev) ==
    [ev EXCEPT !.reserve_count = IF @ < 0 THEN 0 ELSE @,
               !.confirm_count = IF @ < 0 THEN 0 ELSE @]

\* lines 107-111: the derived status
derive_status(ev) ==
    LET full == IF ev.confirm_count >= ev.max_users
                THEN [ev EXCEPT !.status = "FULLY_BOOKED"] ELSE ev
    IN IF full.status = "FULLY_BOOKED" /\ full.confirm_count < full.max_users
       THEN [full EXCEPT !.status = "AVAILABLE"] ELSE full

\* lines 76-79 and 84-87: the capacity check is made for a move into
\* CONFIRMED from RESERVED, CANCELLED or DELETED
guard_fails(ev, cur, status) ==
    /\ status = "CONFIRMED"
    /\ cur \in {"RESERVED", "CANCELLED", "DELETED"}
    /\ capacity_reached(ev)

\* lines 67-69: the reservation is read by id
update_get_reservation(p, rid, status) ==
    /\ Accept(p)
    /\ UNCHANGED <<events, reservations, clock, mark>>
    /\ IF rid \notin ReservationIds
       THEN Finish(p, "NotFound")
       ELSE Goto(p, "update_get_exam_schedule",
                 [NoLocals EXCEPT !.rid = rid, !.status = status,
                                  !.db_reservation = reservations[rid]])

\* the exam schedule read by id alone, whatever its status
update_get_exam_schedule_by_id(p) ==
    /\ pc[p] = "update_get_exam_schedule"
    /\ UNCHANGED <<events, reservations, budget, clock, mark>>
    /\ LET l == loc[p]
           eid == l.db_reservation.exam_schedule_id
           cur == l.db_reservation.status
       IN IF eid \notin EventIds
          THEN Finish(p, "NotFound")
          ELSE IF guard_fails(events[eid], cur, l.status)
          THEN Finish(p, "BadRequest")
          ELSE Goto(p, "update_exam_schedule",
                    [l EXCEPT !.exam_schedule = derive_status(clamp(apply_delta(events[eid], cur, l.status))),
                              !.db_reservation.status = l.status])

\* lines 71-111: the exam schedule is read with the filter status = AVAILABLE,
\* then the new counters, reservation status and derived status are computed
\* on the two dicts read
update_get_exam_schedule(p) ==
    /\ pc[p] = "update_get_exam_schedule"
    /\ UNCHANGED <<events, reservations, budget, clock, mark>>
    /\ LET l == loc[p]
           eid == l.db_reservation.exam_schedule_id
           cur == l.db_reservation.status
       IN IF eid \notin EventIds \/ events[eid].status # "AVAILABLE"
          THEN Finish(p, "NotFound")
          ELSE IF guard_fails(events[eid], cur, l.status)
          THEN Finish(p, "BadRequest")
          ELSE Goto(p, "update_exam_schedule",
                    [l EXCEPT !.exam_schedule = derive_status(clamp(apply_delta(events[eid], cur, l.status))),
                              !.db_reservation.status = l.status])

\* line 114: crud_exam_schedule.update writes every column of the dict and commits
update_exam_schedule(p) ==
    /\ pc[p] = "update_exam_schedule"
    /\ LET eid == loc[p].db_reservation.exam_schedule_id
       IN events' = IF eid \in EventIds
                    THEN [events EXCEPT ![eid] = loc[p].exam_schedule]
                    ELSE events
    /\ Goto(p, "update_reservation", [loc[p] EXCEPT !.exam_schedule = NoExamSchedule])
    /\ UNCHANGED <<reservations, budget, clock, mark>>

\* an UPDATE of the reservation status by exam schedule instead of by id
update_reservation_by_exam_schedule(p) ==
    /\ pc[p] = "update_reservation"
    /\ reservations' = [i \in ReservationIds |->
                           IF reservations[i].exam_schedule_id = loc[p].db_reservation.exam_schedule_id
                           THEN [reservations[i] EXCEPT !.status = loc[p].status]
                           ELSE reservations[i]]
    /\ Finish(p, "OK")
    /\ UNCHANGED <<events, budget, clock, mark>>

\* lines 115-117: crud_user_reservation.update writes the reservation dict,
\* commits, and the handler returns the dict
update_reservation(p) ==
    /\ pc[p] = "update_reservation"
    /\ reservations' = [reservations EXCEPT ![loc[p].rid] = loc[p].db_reservation]
    /\ Finish(p, "OK")
    /\ UNCHANGED <<events, budget, clock, mark>>

(* --------------------------- exam schedule API ------------------------ *)
\* patch_exam_schedule with a body that sets status: the row is looked up
\* with is_deleted = False and the fields set in the body are written
patch_exam_schedule(eid, status) ==
    /\ budget > 0
    /\ budget' = budget - 1
    /\ eid \in EventIds
    /\ ~events[eid].is_deleted
    /\ events' = [events EXCEPT ![eid].status = status]
    /\ UNCHANGED <<reservations, pc, loc, resp, clock, mark>>

\* erase_exam_schedule: the row is looked up with is_deleted = False and
\* crud_exam_schedule.delete sets is_deleted (and deleted_at), the model
\* having both columns
erase_exam_schedule(eid) ==
    /\ budget > 0
    /\ budget' = budget - 1
    /\ eid \in EventIds
    /\ ~events[eid].is_deleted
    /\ events' = [events EXCEPT ![eid].is_deleted = TRUE]
    /\ UNCHANGED <<reservations, pc, loc, resp, clock, mark>>

\* user_reservation.exam_schedule_id is a foreign key without ON DELETE
referenced(eid) == \E i \in ReservationIds : reservations[i].exam_schedule_id = eid

\* erase_db_exam_schedule: the row is looked up with is_deleted = False and
\* crud_exam_schedule.db_delete removes it; the foreign key of
\* user_reservation makes the DELETE fail while a reservation refers to it
erase_db_exam_schedule(eid) ==
    /\ budget > 0
    /\ budget' = budget - 1
    /\ eid \in EventIds
    /\ ~events[eid].is_deleted
    /\ events' = IF referenced(eid) THEN events
                 ELSE [e \in EventIds \ {eid} |-> events[e]]
    /\ UNCHANGED <<reservations, pc, loc, resp, clock, mark>>

(* ---------------------------- specifications -------------------------- *)
\* the steps of the two reservation handlers after their first await
Continue(p) ==
    \/ \E t \in Times : create_check(p, t)
    \/ create_insert(p)
    \/ update_get_exam_schedule(p)
    \/ update_exam_schedule(p)
    \/ update_reservation(p)

\* the requests to the two reservation handlers; the body of a create carries
\* the id of its own user here and the id of another user in SpecBody
Requests ==
    \/ \E p \in Procs, u \in UserIds, e \in EventIds \cup {0}, s \in ReservationStatus :
           create_get_exam_schedule(p, u, u, e, s)
    \/ \E p \in Procs, r \in 1..(Len(reservations) + 1), s \in ReservationStatus :
           update_get_reservation(p, r, s)

\* the requests to the exam schedule API
Admin ==
    \/ \E e \in EventIds, s \in ExamScheduleStatus : patch_exam_schedule(e, s)
    \/ \E e \in EventIds : erase_exam_schedule(e)
    \/ \E e \in EventIds : erase_db_exam_schedule(e)

Next ==
    \/ Requests
    \/ \E p \in Procs : Continue(p)
    \/ Admin

Spec == Init /\ [][Next]_vars

\* the two reservation handlers alone
Handlers ==
    \/ Requests
    \/ \E p \in Procs : Continue(p)

SpecHandlers == Init /\ [][Handlers]_vars

\* the two reservation handlers on a store with two exam schedules
InitTwoEvents == \E m \in 1..MaxSeats : InitWith(<<m, m>>, Workers, MaxRequests - 1)

SpecTwoEvents == InitTwoEvents /\ [][Handlers]_vars

\* both APIs with requests that name stored rows only: no request is answered
\* for a reservation id or an exam schedule id that was never given out
StoredNext ==
    \/ \E p \in Procs, u \in UserIds, e \in EventIds, s \in ReservationStatus :
           create_get_exam_schedule(p, u, u, e, s)
    \/ \E p \in Procs, r \in ReservationIds, s \in ReservationStatus :
           update_get_reservation(p, r, s)
    \/ \E p \in Procs : Continue(p)
    \/ Admin

SpecStored == Init /\ [][StoredNext]_vars

\* the two reservation handlers with create requests whose body carries
\* another user_id than the id of the authenticated user
BodyNext ==
    \/ \E p \in Procs, u \in UserIds, e \in EventIds \cup {0}, s \in ReservationStatus :
           \E b \in (UserIds \cup {0}) \ {u} : create_get_exam_schedule(p, u, b, e, s)
    \/ \E p \in Procs, r \in 1..(Len(reservations) + 1), s \in ReservationStatus :
           update_get_reservation(p, r, s)
    \/ \E p \in Procs : Continue(p)

InitBody == \E m \in 1..MaxSeats : InitWith(<<m>>, Workers, MaxRequests - 1)

SpecBody == InitBody /\ [][BodyNext]_vars

\* datetime.now(UTC) of line 45 read from a clock that runs while the
\* handlers do: a second passes
Tick ==
    /\ clock < MaxNow
    /\ clock' = clock + 1
    /\ UNCHANGED <<events, reservations, pc, loc, resp, budget, mark>>

\* the reservation handlers under the running clock
ClockNext ==
    \/ Tick
    \/ \E p \in Procs, u \in UserIds, e \in EventIds, s \in ReservationStatus :
           create_get_exam_schedule(p, u, u, e, s)
    \/ \E p \in Procs, r \in ReservationIds, s \in ReservationStatus :
           update_get_reservation(p, r, s)
    \/ \E p \in Procs :
           \/ create_check(p, clock)
           \/ create_insert(p)
           \/ update_get_exam_schedule(p)
           \/ update_exam_schedule(p)
           \/ update_reservation(p)

SpecClock == Init /\ [][ClockNext]_vars

(* ------------------------------ scenarios ----------------------------- *)
\* every coroutine p that is on serves user p: one create_user_reservation
\* with the default status, and, once all reservations exist, one
\* update_user_reservation_status of its own reservation to CONFIRMED
On == {p \in Procs : pc[p] # "off"}

ScenCreate(p) ==
    /\ resp[p] = "none"
    /\ ~reservation_check(p, 1)
    /\ create_get_exam_schedule(p, p, p, 1, DefaultReservationStatus)

ScenConfirm(p) ==
    /\ resp[p] = "Created"
    /\ \A q \in On : reservation_check(q, 1)
    /\ \E r \in ReservationIds :
           /\ reservations[r].user_id = p
           /\ update_get_reservation(p, r, "CONFIRMED")

ScenNext ==
    \E p \in Procs :
        \/ ScenCreate(p)
        \/ ScenConfirm(p)
        \/ create_check(p, 0)
        \/ create_insert(p)
        \/ update_get_exam_schedule(p)
        \/ update_exam_schedule(p)
        \/ update_reservation(p)

\* two or three users ask for the one or two seats of one exam schedule
ScenInit ==
    \E m \in {1, 2}, ws \in {{1, 2}, {1, 2, 3}} : InitWith(<<m>>, ws, 2 * Cardinality(ws))

SpecScenario == ScenInit /\ [][ScenNext]_vars

\* every confirm request of the scenario has been answered
ScenDone == \A p \in On : pc[p] = "idle" /\ resp[p] \in {"OK", "BadRequest", "NotFound"}

Answered(r) == Cardinality({p \in On : resp[p] = r})

\* the round trip of the reservation of user 1: while the other users create
\* and, some of them, confirm their reservations, user 1 creates one; when no
\* request is under way and the exam schedule has a free seat, the counters
\* are noted in mark and the reservation of user 1 is asked to become
\* CONFIRMED and, when that succeeded, CANCELLED
Mine == CHOOSE r \in ReservationIds : reservations[r].user_id = 1

RtBegin ==
    /\ mark.phase = 0
    /\ \A p \in On : pc[p] = "idle" /\ reservation_check(p, 1)
    /\ reservations[Mine].status = "RESERVED"
    /\ ~capacity_reached(events[1])
    /\ mark' = [phase |-> 1,
                reserve_count |-> events[1].reserve_count,
                confirm_count |-> events[1].confirm_count]
    /\ UNCHANGED <<events, reservations, pc, loc, resp, budget, clock>>

RtConfirm ==
    /\ mark.phase = 1
    /\ resp[1] = "Created"
    /\ update_get_reservation(1, Mine, "CONFIRMED")

RtCancel ==
    /\ mark.phase = 1
    /\ resp[1] = "OK"
    /\ reservations[Mine].status = "CONFIRMED"
    /\ update_get_reservation(1, Mine, "CANCELLED")

RtNext ==
    \/ RtBegin
    \/ RtConfirm
    \/ RtCancel
    \/ \E p \in Procs : mark.phase = 0 /\ ScenCreate(p)
    \/ \E p \in Procs \ {1} : mark.phase = 0 /\ ScenConfirm(p)
    \/ \E p \in Procs :
           \/ create_check(p, 0)
           \/ create_insert(p)
           \/ update_get_exam_schedule(p)
           \/ update_exam_schedule(p)
           \/ update_reservation(p)

RtInit == \E m \in 1..MaxSeats, ws \in {{1, 2}, {1, 2, 3}} : InitWith(<<m>>, ws, 3 * Cardinality(ws))

SpecRoundTrip == RtInit /\ [][RtNext]_vars

\* the round trip has ended: its last request is answered and no further one
\* follows
RtOver ==
    /\ mark.phase = 1
    /\ pc[1] = "idle"
    /\ resp[1] \in {"OK", "BadRequest", "NotFound"}
    /\ ~(resp[1] = "OK" /\ reservations[Mine].status = "CONFIRMED")

(* ------------------------------- claims ------------------------------- *)
CountWith(e, s) ==
    Cardinality({i \in ReservationIds :
                    reservations[i].exam_schedule_id = e /\ reservations[i].status = s})

\* the step of coroutine p that leaves the await at label l
Leaves(p, l) == pc[p] = l /\ pc'[p] # l

\* the exam schedule coroutine p works on
EventOf(p) == loc[p].db_reservation.exam_schedule_id

\* the delta (reserve_count, confirm_count) of the transition table, section 4.2
TableDelta(cur, status) ==
    IF cur = status THEN <<0, 0>>
    ELSE IF cur = "RESERVED" THEN
        (IF status = "CONFIRMED" THEN <<-1, 1>> ELSE <<-1, 0>>)
    ELSE IF cur \in {"CANCELLED", "DELETED"} THEN
        (IF status = "CONFIRMED" THEN <<0, 1>>
         ELSE IF status = "RESERVED" THEN <<1, 0>> ELSE <<0, 0>>)
    ELSE (IF status = "RESERVED" THEN <<1, 0>> ELSE <<0, -1>>)

C2_RaceOneWinner ==
    (ScenDone /\ On = {1, 2} /\ events[1].max_users = 1) =>
        /\ Answered("OK") = 1
        /\ Answered("BadRequest") = 1
        /\ events[1].confirm_count = 1

\* C3: in every reachable state reserve_count is the number of RESERVED
\* reservations of the exam schedule and confirm_count the number of
\* CONFIRMED ones.
C3_CountersAreTrueCounts ==
    \A e \in EventIds :
        /\ events[e].reserve_count = CountWith(e, "RESERVED")
        /\ events[e].confirm_count = CountWith(e, "CONFIRMED")

\* C4: in every reachable state an exam schedule that is not CANCELLED or
\* DELETED is FULLY_BOOKED exactly if confirm_count >= max_users.
C4_FullyBookedIffFull ==
    \A e \in EventIds :
        events[e].status \notin {"CANCELLED", "DELETED"} =>
            (events[e].status = "FULLY_BOOKED" <=> events[e].confirm_count >= events[e].max_users)

\* C5: the step that ends a create_user_reservation with success inserts a
\* RESERVED reservation and raises the stored reserve_count of its exam
\* schedule by one.
C5_CreateReservesAndCounts ==
    [][\A p \in Procs :
          (Leaves(p, "create_insert") /\ resp'[p] = "Created") =>
              /\ Len(reservations') = Len(reservations) + 1
              /\ reservations'[Len(reservations')].status = "RESERVED"
              /\ events'[EventOf(p)].reserve_count = events[EventOf(p)].reserve_count + 1]_vars

\* C6: the write of the exam schedule by a status change moves
\* (reserve_count, confirm_count) by the delta of the transition table for
\* (current status, requested status), and the write of the reservation sets
\* the requested status.
C6_TransitionTable ==
    [][\A p \in Procs :
          /\ Leaves(p, "update_exam_schedule") =>
                LET e == EventOf(p)
                    d == TableDelta(reservations[loc[p].rid].status, loc[p].status)
                IN /\ events'[e].reserve_count = events[e].reserve_count + d[1]
                   /\ events'[e].confirm_count = events[e].confirm_count + d[2]
          /\ Leaves(p, "update_reservation") =>
                reservations'[loc[p].rid].status = loc[p].status]_vars

\* C7: with max_users = 2, after three users created a reservation each and
\* all three are asked to become CONFIRMED, two requests succeed, one fails
\* with BadRequest, confirm_count is 2 and the status FULLY_BOOKED.
C7_TwoOfThree ==
    (ScenDone /\ On = {1, 2, 3} /\ events[1].max_users = 2) =>
        /\ Answered("OK") = 2
        /\ Answered("BadRequest") = 1
        /\ events[1].confirm_count = 2
        /\ events[1].status = "FULLY_BOOKED"

\* C8: a move into CONFIRMED from RESERVED, CANCELLED or DELETED that finds
\* confirm_count >= max_users fails with BadRequest and changes no row.
C8_GuardFailure ==
    [][\A p \in Procs :
          (/\ Leaves(p, "update_get_exam_schedule")
           /\ loc[p].status = "CONFIRMED"
           /\ loc[p].db_reservation.status \in {"RESERVED", "CANCELLED", "DELETED"}
           /\ events[EventOf(p)].confirm_count >= events[EventOf(p)].max_users) =>
              /\ resp'[p] = "BadRequest"
              /\ events' = events
              /\ reservations' = reservations]_vars

\* C9: the new counters of the exam schedule and the new status of the
\* reservation become visible in one step: no step changes the counters of
\* the exam schedule and leaves the reservation with another status than the
\* requested one.
C9_OneAtomicUnit ==
    [][\A p \in Procs :
          (/\ Leaves(p, "update_exam_schedule")
           /\ \/ events'[EventOf(p)].reserve_count # events[EventOf(p)].reserve_count
              \/ events'[EventOf(p)].confirm_count # events[EventOf(p)].confirm_count) =>
              reservations'[loc[p].rid].status = loc[p].status]_vars

\* C10: status changes of one exam schedule are linearized: the counters a
\* status change writes are the stored counters at the time of the write
\* moved by the delta of the change, so no delta written before is lost.
C10_Linearized ==
    [][\A p \in Procs :
          Leaves(p, "update_exam_schedule") =>
              LET e == EventOf(p)
                  seq == clamp(apply_delta(events[e], reservations[loc[p].rid].status, loc[p].status))
              IN /\ events'[e].reserve_count = seq.reserve_count
                 /\ events'[e].confirm_count = seq.confirm_count]_vars

\* the user and exam schedule of the request of coroutine p have a row
HasRow(p) ==
    \E i \in ReservationIds :
        /\ reservations[i].user_id = loc[p].current_user
        /\ reservations[i].exam_schedule_id = loc[p].db_reservation.exam_schedule_id

\* no two reservations of one user for one exam schedule
UniquePairs ==
    \A i, j \in ReservationIds :
        (/\ reservations[i].user_id = reservations[j].user_id
         /\ reservations[i].exam_schedule_id = reservations[j].exam_schedule_id) => i = j

C12_PreconditionFails ==
    [][\A p \in Procs :
          /\ (pc[p] = "idle" /\ pc'[p] = "idle" /\ resp[p] = "none" /\ resp'[p] # "none") =>
                /\ resp'[p] = "NotFound"
                /\ events' = events
                /\ reservations' = reservations
          /\ (Leaves(p, "create_check") /\ loc[p].exam_schedule.is_deleted) =>
                /\ resp'[p] = "NotFound"
                /\ pc'[p] = "idle"
                /\ events' = events
                /\ reservations' = reservations
          /\ (Leaves(p, "create_check") /\ capacity_reached(loc[p].exam_schedule)) =>
                /\ resp'[p] = "BadRequest"
                /\ pc'[p] = "idle"
                /\ events' = events
                /\ reservations' = reservations]_vars

\* the first second at which the booking window of ev is closed
Cutoff(ev) == ev.start_at - BOOKING_CUTOFF

\* C13: with the clock in whole seconds, a create request checked at exactly
\* start_at - 3 days is rejected with BadRequest, one checked a second earlier
\* is accepted when no reservation of the user exists and a seat is free, and
\* a request is accepted only at a time before start_at - 3 days.
C13_CutoffBoundary ==
    [][\A p \in Procs :
          Leaves(p, "create_check") =>
              LET ev == loc[p].exam_schedule
              IN /\ clock = Cutoff(ev) =>
                       /\ resp'[p] = "BadRequest"
                       /\ pc'[p] = "idle"
                       /\ reservations' = reservations
                 /\ (clock = Cutoff(ev) - 1 /\ ~HasRow(p) /\ ~capacity_reached(ev)) =>
                       pc'[p] = "create_insert"
                 /\ pc'[p] = "create_insert" => clock < Cutoff(ev)]_vars

\* of the first two requests, both creates, one was accepted a second before
\* the cutoff and the other one rejected at the cutoff
C13_Witness ==
    \E p, q \in Procs :
        /\ clock = Cutoff(events[1])
        /\ budget = MaxRequests - 2
        /\ reservations = <<>>
        /\ pc[p] = "create_insert"
        /\ pc[q] = "idle"
        /\ resp[q] = "BadRequest"

\* C14: a status change to the status the reservation has leaves
\* reserve_count, confirm_count and status of its exam schedule as they are.
C14_SameStatusNoChange ==
    [][\A p \in Procs :
          (/\ Leaves(p, "update_exam_schedule")
           /\ reservations[loc[p].rid].status = loc[p].status
           /\ EventOf(p) \in EventIds) =>
              LET e == EventOf(p)
              IN /\ events'[e].reserve_count = events[e].reserve_count
                 /\ events'[e].confirm_count = events[e].confirm_count
                 /\ events'[e].status = events[e].status]_vars

\* C15: on an exam schedule with a free seat, max_users = 1 included, the
\* sequence RESERVED -> CONFIRMED -> CANCELLED of one reservation completes,
\* and at its end confirm_count is what it was before and reserve_count is
\* lower by exactly 1.
C15_RoundTrip ==
    RtOver =>
        /\ resp[1] = "OK"
        /\ reservations[Mine].status = "CANCELLED"
        /\ events[1].confirm_count = mark.confirm_count
        /\ events[1].reserve_count = mark.reserve_count - 1

\* a request to the exam schedule API: the only steps that change an exam
\* schedule and no coroutine
AdminStep == events' # events /\ pc' = pc

\* C16: an update, a soft delete and a hard delete of an exam schedule leave
\* reserve_count, confirm_count and status of every exam schedule that is
\* still stored as they are.
C16_AdminFrame ==
    [][AdminStep =>
          \A e \in EventIds \cap DOMAIN events' :
              /\ events'[e].reserve_count = events[e].reserve_count
              /\ events'[e].confirm_count = events[e].confirm_count
              /\ events'[e].status = events[e].status]_vars

\* C17: in every reachable state every exam schedule has reserve_count >= 0.
C17_ReserveCountNonNegative ==
    \A e \in EventIds : events[e].reserve_count >= 0

\* the exam schedule row of a change RESERVED -> CANCELLED or DELETED has
\* been written with reserve_count 0, where the stored one was 0 already
C17_Witness ==
    \E p \in Procs :
        /\ pc[p] = "update_reservation"
        /\ loc[p].status \in {"CANCELLED", "DELETED"}
        /\ reservations[loc[p].rid].status = "RESERVED"
        /\ events[EventOf(p)].reserve_count = 0

\* C18: a step of a create or of a status change on a reservation of one exam
\* schedule leaves every other exam schedule, and every reservation but the
\* one the status change is about, as it is; a create only adds its own row.
C18_OtherRowsUnchanged ==
    [][\A p \in Procs :
          /\ (pc[p] = "idle" /\ pc'[p] # "idle") =>
                events' = events /\ reservations' = reservations
          /\ (pc[p] \notin {"idle", "off"} /\ pc'[p] # pc[p]) =>
                /\ DOMAIN events' = EventIds
                /\ \A e \in EventIds \ {EventOf(p)} : events'[e] = events[e]
                /\ \A i \in ReservationIds \ {loc[p].rid} :
                      /\ i \in DOMAIN reservations'
                      /\ reservations'[i] = reservations[i]]_vars

\* the status change to CONFIRMED of a reservation of exam schedule 1 has been
\* written while exam schedule 2 has a reservation
C18_Witness ==
    \E p \in Procs :
        /\ pc[p] = "idle"
        /\ resp[p] = "OK"
        /\ events[1].confirm_count = 1
        /\ CountWith(1, "CONFIRMED") = 1
        /\ events[2].confirm_count = 0
        /\ CountWith(2, "RESERVED") = 1

\* C19: the change of a CONFIRMED reservation of a FULLY_BOOKED exam schedule
\* to CANCELLED or DELETED succeeds: it is not rejected, the row to be written
\* has confirm_count lower by 1 and, being below max_users, status AVAILABLE.
C19_CancelReopens ==
    [][\A p \in Procs :
          (/\ Leaves(p, "update_get_exam_schedule")
           /\ loc[p].db_reservation.status = "CONFIRMED"
           /\ loc[p].status \in {"CANCELLED", "DELETED"}
           /\ EventOf(p) \in EventIds
           /\ events[EventOf(p)].status = "FULLY_BOOKED"
           /\ events[EventOf(p)].confirm_count = events[EventOf(p)].max_users) =>
              /\ pc'[p] = "update_exam_schedule"
              /\ loc'[p].exam_schedule.confirm_count = events[EventOf(p)].confirm_count - 1
              /\ loc'[p].exam_schedule.status = "AVAILABLE"]_vars

\* C20: in a run of create and status change requests alone the floor at 0 is
\* never needed: the counters computed from the deltas of a status change are
\* >= 0 before the floor is applied.
C20_ClampNeverNeeded ==
    [][\A p \in Procs :
          (/\ Leaves(p, "update_get_exam_schedule")
           /\ pc'[p] = "update_exam_schedule") =>
              LET raw == apply_delta(events[EventOf(p)], loc[p].db_reservation.status, loc[p].status)
              IN /\ raw.reserve_count >= 0
                 /\ raw.confirm_count >= 0]_vars

\* C21: the write of a reservation status change leaves the status of an
\* exam schedule that is CANCELLED or DELETED as it is, and a request to the
\* exam schedule API (a soft delete or a cancellation among them) leaves every
\* reservation as it is.
C21_NoCascade ==
    [][/\ \A p \in Procs :
             (/\ Leaves(p, "update_exam_schedule")
              /\ EventOf(p) \in EventIds
              /\ events[EventOf(p)].status \in {"CANCELLED", "DELETED"}) =>
                 events'[EventOf(p)].status = events[EventOf(p)].status
       /\ AdminStep => reservations' = reservations]_vars

\* C22: in every reachable state the number of CONFIRMED reservations of an
\* exam schedule is at most its max_users, whatever status the create requests
\* carried and however the confirm requests interleaved.
C22_NoOverbooking ==
    \A e \in EventIds : CountWith(e, "CONFIRMED") <= events[e].max_users

\* C23: a status change that finds the exam schedule of its reservation in
\* another status than AVAILABLE (FULLY_BOOKED, CANCELLED or DELETED) fails
\* with NotFound, whatever status was requested, and changes neither the
\* reservation nor the exam schedule.
C23_NotAvailableNotFound ==
    [][\A p \in Procs :
          (/\ Leaves(p, "update_get_exam_schedule")
           /\ EventOf(p) \in EventIds
           /\ events[EventOf(p)].status # "AVAILABLE") =>
              /\ resp'[p] = "NotFound"
              /\ pc'[p] = "idle"
              /\ events' = events
              /\ reservations' = reservations]_vars

\* a status change has been answered NotFound while the exam schedule is
\* CANCELLED with a free seat, and the one reservation is as it was created
C23_Witness ==
    \E p \in Procs :
        /\ pc[p] = "idle"
        /\ resp[p] = "NotFound"
        /\ 1 \in EventIds
        /\ events[1].status = "CANCELLED"
        /\ events[1].confirm_count = 0
        /\ Len(reservations) = 1
        /\ reservations[1].status = "RESERVED"

\* C24: every reservation a create request inserts has the user_id of the
\* authenticated user of the request, whatever user_id its body carried.
C24_OwnedByActor ==
    [][\A p \in Procs :
          (Leaves(p, "create_insert") /\ reservations' # reservations) =>
              /\ Len(reservations') = Len(reservations) + 1
              /\ reservations'[Len(reservations')].user_id = loc[p].current_user
              /\ \A i \in ReservationIds : reservations'[i] = reservations[i]]_vars

\* both users have created a reservation, each with the user_id of the other
\* one or of nobody in the request body
C24_Witness ==
    /\ Len(reservations) = 2
    /\ \E p, q \in Procs : p # q /\ resp[p] = "Created" /\ resp[q] = "Created"
    /\ {reservations[i].user_id : i \in ReservationIds} = UserIds
====
